---- MODULE Spec2Model ----
(***************************************************************************)
(* Model of the Namecheap provider of dnscontrol (src/unnamed/part_000):   *)
(* the bounded retry wrapper doWithRetry, the record pass (GetZoneRecords, *)
(* GetZoneRecordsCorrections, generateRecords) and the registrar pass      *)
(* (GetRegistrarCorrections), run by one worker against one backend zone.  *)
(*                                                                         *)
(* Error messages, record targets and host addresses are sequences of      *)
(* characters, read by strings.Contains and strings.HasSuffix; nameserver  *)
(* names are atoms with the byte-order rank StrRank(s), read by            *)
(* sort.Strings and strings.Join.                                          *)
(***************************************************************************)
EXTENDS Integers, Sequences, FiniteSets, TLC

\* ------------------------------------------------------------------ bounds

\* Longest desired record list (dc.Records) drawn in Init.
MaxRecs == 2
\* Longest host list the backend holds in Init.
MaxHosts == 2
\* Longest nameserver list (desired and backend) drawn in Init.
MaxNs == 2
\* Number of record passes (GetZoneRecords .. apply) one behaviour runs.
MaxPasses == 2
\* Number of doWithRetry calls one worker makes (fetch, then apply).
MaxCalls == 2

\* --------------------------------------------------------------- strings

\* A Go string that strings.Contains or strings.HasSuffix reads (an error
\* message, a record target, a host address) is the sequence of its
\* characters.  Text(s) is that sequence for each string literal of the
\* model.
Text(s) ==
    CASE s = "" -> << >>
      [] s = "unexpected status code from api: 405" ->
            <<"u", "n", "e", "x", "p", "e", "c", "t", "e", "d", " ", "s",
              "t", "a", "t", "u", "s", " ", "c", "o", "d", "e", " ", "f",
              "r", "o", "m", " ", "a", "p", "i", ":", " ", "4", "0", "5">>
      [] s = "unexpected status code from api: 500" ->
            <<"u", "n", "e", "x", "p", "e", "c", "t", "e", "d", " ", "s",
              "t", "a", "t", "u", "s", " ", "c", "o", "d", "e", " ", "f",
              "r", "o", "m", " ", "a", "p", "i", ":", " ", "5", "0", "0">>
      [] s = "parkingpage" ->
            <<"p", "a", "r", "k", "i", "n", "g", "p", "a", "g", "e">>
      [] s = "registrar-servers.com." ->
            <<"r", "e", "g", "i", "s", "t", "r", "a", "r", "-", "s", "e",
              "r", "v", "e", "r", "s", ".", "c", "o", "m", ".">>
      [] s = "." ->
            <<".">>
      [] s = "dns1.registrar-servers.com" ->
            <<"d", "n", "s", "1", ".", "r", "e", "g", "i", "s", "t", "r",
              "a", "r", "-", "s", "e", "r", "v", "e", "r", "s", ".", "c",
              "o", "m">>
      [] s = "dns2.registrar-servers.com" ->
            <<"d", "n", "s", "2", ".", "r", "e", "g", "i", "s", "t", "r",
              "a", "r", "-", "s", "e", "r", "v", "e", "r", "s", ".", "c",
              "o", "m">>
      [] s = "dns1.registrar-servers.com." ->
            <<"d", "n", "s", "1", ".", "r", "e", "g", "i", "s", "t", "r",
              "a", "r", "-", "s", "e", "r", "v", "e", "r", "s", ".", "c",
              "o", "m", ".">>
      [] s = "dns2.registrar-servers.com." ->
            <<"d", "n", "s", "2", ".", "r", "e", "g", "i", "s", "t", "r",
              "a", "r", "-", "s", "e", "r", "v", "e", "r", "s", ".", "c",
              "o", "m", ".">>
      [] s = "freedns1.registrar-servers.com." ->
            <<"f", "r", "e", "e", "d", "n", "s", "1", ".", "r", "e", "g",
              "i", "s", "t", "r", "a", "r", "-", "s", "e", "r", "v", "e",
              "r", "s", ".", "c", "o", "m", ".">>
      [] s = "ns1.example.com." ->
            <<"n", "s", "1", ".", "e", "x", "a", "m", "p", "l", "e", ".",
              "c", "o", "m", ".">>
      [] s = "mail.example.com." ->
            <<"m", "a", "i", "l", ".", "e", "x", "a", "m", "p", "l", "e",
              ".", "c", "o", "m", ".">>
      [] s = "parkingpage.namecheap.com." ->
            <<"p", "a", "r", "k", "i", "n", "g", "p", "a", "g", "e", ".",
              "n", "a", "m", "e", "c", "h", "e", "a", "p", ".", "c", "o",
              "m", ".">>
      [] s = "http://www.example.com" ->
            <<"h", "t", "t", "p", ":", "/", "/", "w", "w", "w", ".", "e",
              "x", "a", "m", "p", "l", "e", ".", "c", "o", "m">>
      [] s = "1.2.3.4" ->
            <<"1", ".", "2", ".", "3", ".", "4">>
      [] s = "not-an-ip" ->
            <<"n", "o", "t", "-", "a", "n", "-", "i", "p">>
      [] s = "missing Namecheap apikey and apiuser" ->
            <<"m", "i", "s", "s", "i", "n", "g", " ", "N", "a", "m", "e",
              "c", "h", "e", "a", "p", " ", "a", "p", "i", "k", "e", "y",
              " ", "a", "n", "d", " ", "a", "p", "i", "u", "s", "e", "r">>
      [] s = "wrong api system entity used. use \"OTE\" for OT&E system or \"LIVE\" for Live system" ->
            <<"w", "r", "o", "n", "g", " ", "a", "p", "i", " ", "s", "y",
              "s", "t", "e", "m", " ", "e", "n", "t", "i", "t", "y", " ",
              "u", "s", "e", "d", ".", " ", "u", "s", "e", " ", "\"", "O",
              "T", "E", "\"", " ", "f", "o", "r", " ", "O", "T", "&", "E",
              " ", "s", "y", "s", "t", "e", "m", " ", "o", "r", " ", "\"",
              "L", "I", "V", "E", "\"", " ", "f", "o", "r", " ", "L", "i",
              "v", "e", " ", "s", "y", "s", "t", "e", "m">>
      [] s = "missing login credentials apilogin or apipassword" ->
            <<"m", "i", "s", "s", "i", "n", "g", " ", "l", "o", "g", "i",
              "n", " ", "c", "r", "e", "d", "e", "n", "t", "i", "a", "l",
              "s", " ", "a", "p", "i", "l", "o", "g", "i", "n", " ", "o",
              "r", " ", "a", "p", "i", "p", "a", "s", "s", "w", "o", "r",
              "d">>
      [] s = "PowerDNS API Key is required" ->
            <<"P", "o", "w", "e", "r", "D", "N", "S", " ", "A", "P", "I",
              " ", "K", "e", "y", " ", "i", "s", " ", "r", "e", "q", "u",
              "i", "r", "e", "d">>
      [] s = "PowerDNS API URL is required" ->
            <<"P", "o", "w", "e", "r", "D", "N", "S", " ", "A", "P", "I",
              " ", "U", "R", "L", " ", "i", "s", " ", "r", "e", "q", "u",
              "i", "r", "e", "d">>
      [] s = "PowerDNS server name is required" ->
            <<"P", "o", "w", "e", "r", "D", "N", "S", " ", "s", "e", "r",
              "v", "e", "r", " ", "n", "a", "m", "e", " ", "i", "s", " ",
              "r", "e", "q", "u", "i", "r", "e", "d">>
      [] s = "invalid character 'm' looking for beginning of object key string" ->
            <<"i", "n", "v", "a", "l", "i", "d", " ", "c", "h", "a", "r",
              "a", "c", "t", "e", "r", " ", "'", "m", "'", " ", "l", "o",
              "o", "k", "i", "n", "g", " ", "f", "o", "r", " ", "b", "e",
              "g", "i", "n", "n", "i", "n", "g", " ", "o", "f", " ", "o",
              "b", "j", "e", "c", "t", " ", "k", "e", "y", " ", "s", "t",
              "r", "i", "n", "g">>
      [] s = "PopulateFromString: invalid IP address: " ->
            <<"P", "o", "p", "u", "l", "a", "t", "e", "F", "r", "o", "m",
              "S", "t", "r", "i", "n", "g", ":", " ", "i", "n", "v", "a",
              "l", "i", "d", " ", "I", "P", " ", "a", "d", "d", "r", "e",
              "s", "s", ":", " ">>
      [] s = "bogus" -> <<"b", "o", "g", "u", "s">>

\* strings.Contains(s, sub): sub occurs as a contiguous run of s.
Contains(s, sub) ==
    \E i \in 0..(Len(s) - Len(sub)) :
        \A j \in 1..Len(sub) : s[i + j] = sub[j]

\* strings.HasSuffix(s, suffix).
HasSuffix(s, suffix) ==
    /\ Len(suffix) <= Len(s)
    /\ \A j \in 1..Len(suffix) : s[Len(s) - Len(suffix) + j] = suffix[j]

\* ------------------------------------------------------------ retry loop

\* const maxRetries = 23
maxRetries == 23
\* const sleepTime = 5 * time.Second, in seconds
sleepTime == 5

RateLimitMarker == Text("unexpected status code from api: 405")
OtherErrorMsg == Text("unexpected status code from api: 500")

\* A Go error value: its message and, to tell the errors of different
\* attempts apart, the number of the invocation of f that returned it.
\* Nil is the nil error.
Nil == [msg |-> << >>, call |-> 0]
Error(m, n) == [msg |-> m, call |-> n]

\* line 108: the error is the rate-limit signal
\* (variant: every error counts as the signal)
IsRateLimitedAny(e) == TRUE
IsRateLimited(e) == Contains(e.msg, RateLimitMarker)

\* line 110: the retry budget is used up
\* (variant: > for >=)
RetryExhaustedOffByOne(n) == n > maxRetries
RetryExhausted(n) == n >= maxRetries

\* ------------------------------------------------------ records and hosts

\* models.RecordConfig, the fields the provider reads and writes.
Rec(label, type, target, pref, ttl) ==
    [Label |-> label, Type |-> type, Target |-> target,
     MxPreference |-> pref, TTL |-> ttl]

\* nc.DomainDNSHost
Host(id, name, type, address, pref, ttl) ==
    [ID |-> id, Name |-> name, Type |-> type, Address |-> address,
     MXPref |-> pref, TTL |-> ttl]

rA        == Rec("@", "A", Text("1.2.3.4"), 0, 300)
rA600     == Rec("@", "A", Text("1.2.3.4"), 0, 600)
rPark     == Rec("www", "CNAME", Text("parkingpage.namecheap.com."), 0, 1800)
rURL      == Rec("@", "URL", Text("http://www.example.com"), 0, 1800)
rMX       == Rec("@", "MX", Text("mail.example.com."), 10, 300)
rBad      == Rec("@", "A", Text("not-an-ip"), 0, 300)
rBad2     == Rec("www", "A", Text("bogus"), 0, 300)
rNSdef    == Rec("@", "NS", Text("dns1.registrar-servers.com."), 0, 300)
rNSdef2   == Rec("@", "NS", Text("dns2.registrar-servers.com."), 0, 300)
rNSfree   == Rec("@", "NS", Text("freedns1.registrar-servers.com."), 0, 300)
rNSother  == Rec("@", "NS", Text("ns1.example.com."), 0, 300)
rNSsub    == Rec("sub", "NS", Text("ns1.example.com."), 0, 300)

\* Records a zone declaration is drawn from.
DesiredUniverse ==
    {rA, rA600, rPark, rURL, rNSdef, rNSdef2, rNSfree, rNSother, rNSsub}
\* Records the backend's initial hosts are drawn from.
BackendUniverse == {rA, rPark, rURL}
\* Records of a mail zone: what it declares and what its backend holds.
MailUniverse == {rA, rMX}
\* Records the hosts of a mail zone's backend are drawn from: two of them
\* have an address that is no IP address.
FetchUniverse == {rA, rMX, rBad, rBad2}

\* Sequences without repetition over S, of length at most n.
NoDupSeqs(S, n) ==
    {q \in UNION {[1..k -> S] : k \in 0..n} :
        \A i, j \in 1..Len(q) : i < j => q[i] # q[j]}

\* The elements of a sequence.
Range(q) == {q[i] : i \in 1..Len(q)}

\* generateRecords, lines 320-342: one host per record of dc.Records, in
\* order, IDs counting from 1.  (No record of the model has type CAA, so the
\* value is GetTargetField().)
\* (variant: IDs counting from 0)
GenerateHostsFromZero(recs) ==
    [i \in 1..Len(recs) |->
        Host(i - 1, recs[i].Label, recs[i].Type, recs[i].Target,
             recs[i].MxPreference, recs[i].TTL)]
GenerateHosts(recs) ==
    [i \in 1..Len(recs) |->
        Host(i, recs[i].Label, recs[i].Type, recs[i].Target,
             recs[i].MxPreference, recs[i].TTL)]

\* The value of a decimal digit.
DigitValue ==
    [c \in {"0", "1", "2", "3", "4", "5", "6", "7", "8", "9"} |->
        CASE c = "0" -> 0 [] c = "1" -> 1 [] c = "2" -> 2 [] c = "3" -> 3
          [] c = "4" -> 4 [] c = "5" -> 5 [] c = "6" -> 6 [] c = "7" -> 7
          [] c = "8" -> 8 [] c = "9" -> 9]

\* The number the digits of s spell.
RECURSIVE Decimal(_)
Decimal(s) ==
    IF Len(s) = 0 THEN 0
    ELSE 10 * Decimal(SubSeq(s, 1, Len(s) - 1)) + DigitValue[s[Len(s)]]

\* An IPv4 address in dotted form: four fields separated by dots, each one
\* to three digits that spell a number up to 255.
IsIPv4(s) ==
    LET dots == {i \in 1..Len(s) : s[i] = "."}
        starts == {1} \cup {i + 1 : i \in dots}
        field(a) ==
            LET later == {i \in dots : i >= a}
                b == IF later = {} THEN Len(s) + 1
                     ELSE CHOOSE i \in later : \A k \in later : i <= k
            IN  SubSeq(s, a, b - 1)
    IN  /\ \A i \in 1..Len(s) : s[i] \in DOMAIN DigitValue \cup {"."}
        /\ Cardinality(dots) = 3
        /\ \A a \in starts :
              /\ Len(field(a)) \in 1..3
              /\ Decimal(field(a)) <= 255

\* The head of the message of a failed conversion; the address follows.
InvalidIP == Text("PopulateFromString: invalid IP address: ")

\* toRecords, lines 300-308: the error of converting one fetched host.
\* SetTargetMX and SetTarget take any address; PopulateFromString fails for
\* an A record whose address is no IP address, with an error that names the
\* address.
ConvertError(h) ==
    CASE h.Type = "MX" -> Nil
      [] h.Type \in {"FRAME", "URL", "URL301"} -> Nil
      [] OTHER -> IF h.Type = "A" /\ ~IsIPv4(h.Address)
                  THEN Error(InvalidIP \o h.Address, 0)
                  ELSE Nil

\* lines 291-299 and 313: the record of one fetched host.
ToRecord(h) == Rec(h.Name, h.Type, h.Address, h.MXPref, h.TTL)

\* toRecords (variant: the records converted before the failing host are
\* returned with the error).
toRecordsPartial(hostList) ==
    LET bad == {i \in 1..Len(hostList) : ConvertError(hostList[i]) # Nil}
        first == CHOOSE i \in bad : \A k \in bad : i <= k
    IN  IF bad = {}
        THEN [records |-> [i \in 1..Len(hostList) |-> ToRecord(hostList[i])],
              err |-> Nil]
        ELSE [records |-> [i \in 1..(first - 1) |-> ToRecord(hostList[i])],
              err |-> ConvertError(hostList[first])]

\* toRecords, lines 289-317: one record per fetched host, in fetched order,
\* or no record and the error of the first host that fails to convert.
toRecords(hostList) ==
    LET bad == {i \in 1..Len(hostList) : ConvertError(hostList[i]) # Nil}
        first == CHOOSE i \in bad : \A k \in bad : i <= k
    IN  IF bad = {}
        THEN [records |-> [i \in 1..Len(hostList) |-> ToRecord(hostList[i])],
              err |-> Nil]
        ELSE [records |-> << >>, err |-> ConvertError(hostList[first])]

\* The two parking records the backend serves for a zone that was sent no
\* records (comment at lines 134-136).
ParkingHosts ==
    << Host(1, "www", "CNAME", Text("parkingpage.namecheap.com."), 10, 1800),
       Host(2, "@", "URL", Text("http://www.example.com"), 10, 1800) >>

\* What the backend holds after a successful DomainDNSSetHosts(sld, tld, recs).
StoredHosts(recs) == IF Len(recs) = 0 THEN ParkingHosts ELSE recs

\* line 139: the substring of a parking address.
ParkingMarker == Text("parkingpage")

\* lines 137-144: the fetched hosts have the shape of the parking records.
\* (variant: the check left out)
IsParkingNever(hostList) == FALSE
IsParking(hostList) ==
    /\ Len(hostList) = 2
    /\ hostList[1].Type = "CNAME"
    /\ Contains(hostList[1].Address, ParkingMarker)
    /\ hostList[2].Type = "URL"

\* lines 134-170: the actual records GetZoneRecords returns for the hosts.
ActualOf(hostList) ==
    IF IsParking(hostList)
    THEN [records |-> << >>, err |-> Nil]
    ELSE toRecords(hostList)

\* ------------------------------------------------------- apex NS filter

\* line 244: the suffix of the backend's own nameservers.
OwnNsSuffix == Text("registrar-servers.com.")

\* line 20: the default nameservers of the backend.
NamecheapDefaultNs ==
    {Text("dns1.registrar-servers.com"), Text("dns2.registrar-servers.com")}

\* The record's target is the fully qualified name of a default nameserver.
TargetIsDefaultNs(r) ==
    \E ns \in NamecheapDefaultNs : r.Target = ns \o Text(".")

\* lines 243-249: the callback of dc.Filter keeps the record.
\* (variant: only the records the callback prints are dropped)
FilterKeepsDefaultNs(r) ==
    ~(r.Type = "NS" /\ r.Label = "@"
        /\ ~HasSuffix(r.Target, OwnNsSuffix))
FilterKeeps(r) == ~(r.Type = "NS" /\ r.Label = "@")

\* lines 243-246: the callback prints the "does not support changing apex NS
\* records" line for the record.
\* (variant: only the default nameservers themselves are passed over)
FilterPrintsNonDefault(r) ==
    /\ r.Type = "NS"
    /\ r.Label = "@"
    /\ ~TargetIsDefaultNs(r)
FilterPrints(r) ==
    /\ r.Type = "NS"
    /\ r.Label = "@"
    /\ ~HasSuffix(r.Target, OwnNsSuffix)

\* dc.Filter, lines 242-250: the records kept, in order.
Filter(recs) == SelectSeq(recs, FilterKeeps)

\* The lines the filter prints, in order: the targets of the records named.
FilterOutput(recs) ==
    LET named == SelectSeq(recs, FilterPrints)
    IN  [i \in 1..Len(named) |-> named[i].Target]

\* ------------------------------------------------------------- the diff

\* No record: the empty side of a Correlation.
NoRec == Rec("", "", << >>, 0, 0)

\* diff.Correlation: an existing record, a desired record, or both.
Correlation(existing, desired) == [Existing |-> existing, Desired |-> desired]

\* Same (label, type) key and same target.
SameValue(a, d) ==
    /\ a.Label = d.Label
    /\ a.Type = d.Type
    /\ a.Target = d.Target

\* Position of a record's (label, type, target) in lexicographic order, the
\* TTL breaking ties.
SortRank(r) ==
    LET k == CASE r.Label = "@" /\ r.Type = "A" -> 1
               [] r.Label = "@" /\ r.Type = "MX" -> 2
               [] r.Label = "@" /\ r.Type = "NS"
                    /\ r.Target = Text("dns1.registrar-servers.com.") -> 3
               [] r.Label = "@" /\ r.Type = "NS"
                    /\ r.Target = Text("dns2.registrar-servers.com.") -> 4
               [] r.Label = "@" /\ r.Type = "NS"
                    /\ r.Target = Text("freedns1.registrar-servers.com.") -> 5
               [] r.Label = "@" /\ r.Type = "NS" -> 6
               [] r.Label = "@" /\ r.Type = "URL" -> 7
               [] r.Label = "sub" -> 8
               [] r.Label = "www" -> 9
               [] OTHER -> 10
    IN  k * 100000 + r.TTL

\* The correlations of S as a sequence sorted by SortRank of the record
\* they are about.
RECURSIVE SortedCorrelations(_)
SortedCorrelations(S) ==
    IF S = {} THEN << >>
    ELSE LET about(c) == IF c.Desired = NoRec THEN c.Existing ELSE c.Desired
             least == CHOOSE c \in S :
                        \A o \in S : SortRank(about(c)) <= SortRank(about(o))
         IN  <<least>> \o SortedCorrelations(S \ {least})

\* diff.NewCompat(dc).IncrementalDiff(actual): the ChangeSet of the desired
\* records against the actual ones.
IncrementalDiff(desired, actual) ==
    LET dRem == Range(desired) \ Range(actual)
        aRem == Range(actual) \ Range(desired)
        pairs == {<<a, d>> \in aRem \X dRem : SameValue(a, d)}
    IN  [toReport |-> << >>,
         toCreate |-> SortedCorrelations(
            {Correlation(NoRec, d) :
                d \in {x \in dRem : \A a \in aRem : ~SameValue(a, x)}}),
         toDelete |-> SortedCorrelations(
            {Correlation(a, NoRec) :
                a \in {x \in aRem : \A d \in dRem : ~SameValue(x, d)}}),
         toModify |-> SortedCorrelations(
            {Correlation(p[1], p[2]) : p \in pairs})]

\* ------------------------------------------------------- the corrections

\* The text of a Correction, by its parts.
Message(head, zone, count, desc, from, to) ==
    [head |-> head, zone |-> zone, count |-> count, desc |-> desc,
     from |-> from, to |-> to]

\* models.Correction: Msg and the action F ("nil" when there is none).
Correction(msg, f) == [Msg |-> msg, F |-> f]

\* diff.GenerateMessageCorrections(toReport): one Correction without action
\* per message.
GenerateMessageCorrections(msgs) ==
    [i \in 1..Len(msgs) |->
        Correction(Message(msgs[i], "", 0, << >>, << >>, << >>), "nil")]

\* lines 263-272: one entry per create, then per delete, then per modify.
Description(cs) ==
    [i \in 1..Len(cs.toCreate) |-> <<"CREATE", cs.toCreate[i]>>]
    \o [i \in 1..Len(cs.toDelete) |-> <<"DELETE", cs.toDelete[i]>>]
    \o [i \in 1..Len(cs.toModify) |-> <<"MODIFY", cs.toModify[i]>>]

\* line 275: only create corrections if there are changes
\* (variant: the test left out)
HasChangesAlways(desc) == TRUE
HasChanges(desc) == Len(desc) > 0

\* lines 257-286: the corrections GetZoneRecordsCorrections returns for the
\* ChangeSet cs of the zone name with the filtered records recs.
ZoneCorrections(name, recs, cs) ==
    LET desc == Description(cs)
    IN  GenerateMessageCorrections(cs.toReport)
        \o (IF HasChanges(desc)
            THEN << Correction(
                      Message("GENERATE_ZONE", name, Len(recs), desc,
                              << >>, << >>),
                      "generateRecords") >>
            ELSE << >>)

\* ------------------------------------------------------------ registrar

NsNames == {"NS1.example.com", "ns1.example.com", "ns2.example.com"}

\* Byte order of the nameserver names: upper case sorts before lower case.
StrRank(s) ==
    CASE s = "NS1.example.com" -> 1
      [] s = "ns1.example.com" -> 2
      [] s = "ns2.example.com" -> 3
      [] OTHER -> 4

\* strings.ToLower
ToLower(s) == IF s = "NS1.example.com" THEN "ns1.example.com" ELSE s

\* Insert x into the sorted sequence q.
RECURSIVE Insert(_, _)
Insert(q, x) ==
    IF q = << >> THEN <<x>>
    ELSE IF StrRank(x) < StrRank(Head(q)) THEN <<x>> \o q
    ELSE <<Head(q)>> \o Insert(Tail(q), x)

\* sort.Strings, lines 369 and 375.
RECURSIVE SortStrings(_)
\* (variant: the list left as fetched)
SortStringsNot(q) == q
SortStrings(q) ==
    IF q = << >> THEN << >>
    ELSE Insert(SortStrings(Tail(q)), Head(q))

\* strings.Join(list, ","): the names with a comma between neighbours.
RECURSIVE Join(_)
Join(q) ==
    IF Len(q) <= 1 THEN q
    ELSE <<Head(q), ",">> \o Join(Tail(q))

\* lines 369-370 and 375-376: the sorted list joined with commas.
\* (variant: the names lower-cased first)
CanonicalLower(list) ==
    Join(SortStrings([i \in 1..Len(list) |-> ToLower(list[i])]))
Canonical(list) == Join(SortStrings(list))

\* The list the backend stores for DomainDNSSetCustom(sld, tld, joined).
SplitComma(joined) == SelectSeq(joined, LAMBDA x : x # ",")

\* lines 369-393: the corrections GetRegistrarCorrections returns.
RegistrarCorrections(fetched, wanted) ==
    LET found == Canonical(fetched)
        desired == Canonical(wanted)
    IN  IF found # desired
        THEN << Correction(
                  Message("Change Nameservers", "", 0, << >>, found, desired),
                  "DomainDNSSetCustom") >>
        ELSE << >>

\* ---------------------------------------------------------------- state

VARIABLES
    declared,      \* the zone declaration the driver loads for every pass
    dc,            \* *models.DomainConfig handed to the provider
    hosts,         \* backend: the hosts of the zone
    nameservers,   \* backend: the nameservers of the domain
    pc,            \* position of the worker
    running,       \* provider operation on the stack: "none",
                   \* "GetZoneRecords", "GetRegistrarCorrections" or "F"
    site,          \* the backend call the closure f of doWithRetry makes
    currentRetry,  \* doWithRetry: var currentRetry int
    err,           \* the caller's err variable the closure assigns
    calls,         \* invocations of f by the doWithRetry call in progress
    sleeps,        \* time.Sleep(sleepTime) calls by that doWithRetry call
    records,       \* GetZoneRecords: records.Hosts
    info,          \* GetRegistrarCorrections: info.DNSDetails.Nameservers
    recs,          \* generateRecords: recs
    actual,        \* the records GetZoneRecords returned
    changes,       \* the ChangeSet of the last GetZoneRecordsCorrections
    corrections,   \* the corrections the last planning call returned
    printed,       \* lines printed by the filter of the last planning call
    ret,           \* the error the last provider function or F returned
    passes,        \* record passes begun
    appliedPass,   \* the pass whose bundled Correction last succeeded, or 0
    conf,          \* the credentials map handed to a provider constructor
    built,         \* the constructor that ran: "none", "NAMECHEAP",
                   \* "HEXONET" or "POWERDNS"
    handle,        \* the provider handle the constructor returned
    newErr,        \* the error the constructor returned
    requests,      \* requests the constructor sent to a backend
    wPc,           \* per worker: position in its doWithRetry call
    wRetry,        \* per worker: currentRetry of its doWithRetry call
    wCalls,        \* per worker: invocations of f by its doWithRetry call
    wSleeps,       \* per worker: time.Sleep calls of its doWithRetry call
    wDone,         \* per worker: doWithRetry calls that have returned
    wErr           \* per worker: err of the running doWithRetry call

ctor == <<conf, built, handle, newErr, requests>>
workers == <<wPc, wRetry, wCalls, wSleeps, wDone, wErr>>

vars == <<declared, dc, hosts, nameservers, pc, running, site, currentRetry,
          err, calls, sleeps, records, info, recs, actual, changes,
          corrections, printed, ret, passes, appliedPass, ctor, workers>>

backend == <<hosts, nameservers>>
loop == <<site, currentRetry, err, calls, sleeps>>
planning == <<actual, changes, corrections, printed>>

ZoneName == "example.com"
DefaultNsList == <<"ns1.example.com", "ns2.example.com">>
NoChanges ==
    [toReport |-> << >>, toCreate |-> << >>, toDelete |-> << >>,
     toModify |-> << >>]

DomainConfig(name, rs, ns) == [Name |-> name, Records |-> rs, Nameservers |-> ns]

\* No provider function has been called yet.
Idle ==
    /\ dc = declared
    /\ pc = "idle"
    /\ running = "none"
    /\ site = "none"
    /\ currentRetry = 0
    /\ err = Nil
    /\ calls = 0
    /\ sleeps = 0
    /\ records = << >>
    /\ info = << >>
    /\ recs = << >>
    /\ actual = << >>
    /\ changes = NoChanges
    /\ corrections = << >>
    /\ printed = << >>
    /\ ret = Nil
    /\ passes = 0
    /\ appliedPass = 0

\* ---------------------------------------------------------- constructors

\* The credentials map m: m["k"] is "" for a key that is not set.
Confs ==
    [apiuser : {"", "user"}, apikey : {"", "key"},
     apilogin : {"", "login"}, apipassword : {"", "password"},
     apientity : {"", "OTE", "LIVE", "PROD"},
     apiKey : {"", "key"}, apiUrl : {"", "http://localhost"},
     serverName : {"", "localhost"},
     metadata : {"", "{malformed"}]

\* A provider handle: the provider and the credentials it carries.  NoHandle
\* is the nil handle.
Handle(kind, creds) == [kind |-> kind, creds |-> creds]
NoHandle == Handle("nil", << >>)

\* What a constructor returns.
Returned(h, e) == [handle |-> h, err |-> e]

\* namecheap newProvider, line 71
\* (variant: && for ||)
NamecheapMissingBoth(m) == m.apikey = "" /\ m.apiuser = ""
NamecheapMissing(m) == m.apikey = "" \/ m.apiuser = ""

\* namecheap newProvider, lines 68-81
NamecheapNewProvider(m) ==
    IF NamecheapMissing(m)
    THEN Returned(NoHandle, Error(Text("missing Namecheap apikey and apiuser"), 0))
    ELSE Returned(Handle("NAMECHEAP", <<m.apiuser, m.apikey>>), Nil)

\* hexonet newProvider, lines 37-60
HexonetNewProvider(m) ==
    IF m.apientity # "OTE" /\ m.apientity # "LIVE"
    THEN Returned(NoHandle, Error(Text("wrong api system entity used. use \"OTE\" for OT&E system or \"LIVE\" for Live system"), 0))
    ELSE IF m.apilogin = "" \/ m.apipassword = ""
    THEN Returned(NoHandle,
                  Error(Text("missing login credentials apilogin or apipassword"), 0))
    ELSE Returned(Handle("HEXONET",
                         <<m.apilogin, m.apipassword, m.apientity>>), Nil)

\* powerdns newDSP, lines 65-106.  The metadata is absent or the malformed
\* JSON text {malformed, which json.Unmarshal rejects at its second
\* character; metadata that names default nameservers is not among the
\* configurations.
PowerdnsNewDSP(m) ==
    IF m.apiKey = ""
    THEN Returned(NoHandle, Error(Text("PowerDNS API Key is required"), 0))
    ELSE IF m.apiUrl = ""
    THEN Returned(NoHandle, Error(Text("PowerDNS API URL is required"), 0))
    ELSE IF m.serverName = ""
    THEN Returned(NoHandle, Error(Text("PowerDNS server name is required"), 0))
    ELSE IF m.metadata # ""
    THEN Returned(NoHandle,
                  Error(Text("invalid character 'm' looking for beginning of object key string"), 0))
    ELSE Returned(Handle("POWERDNS", <<m.apiKey, m.apiUrl, m.serverName>>), Nil)

\* The credentials the Namecheap provider of the passes was built from.
NamecheapConf ==
    [apiuser |-> "user", apikey |-> "key", apilogin |-> "", apipassword |-> "",
     apientity |-> "", apiKey |-> "", apiUrl |-> "", serverName |-> "",
     metadata |-> ""]

\* The Namecheap provider has been constructed.
Constructed ==
    /\ conf = NamecheapConf
    /\ built = "NAMECHEAP"
    /\ handle = NamecheapNewProvider(NamecheapConf).handle
    /\ newErr = Nil
    /\ requests = 0

\* The workers that reconcile zones concurrently.
Workers == {1, 2}

\* No worker has entered doWithRetry.
NoWorkers ==
    /\ wPc = [w \in Workers |-> "idle"]
    /\ wRetry = [w \in Workers |-> 0]
    /\ wCalls = [w \in Workers |-> 0]
    /\ wSleeps = [w \in Workers |-> 0]
    /\ wDone = [w \in Workers |-> 0]
    /\ wErr = [w \in Workers |-> Nil]

Init ==
    /\ \/ /\ declared \in {DomainConfig(ZoneName, rs, DefaultNsList) :
                              rs \in NoDupSeqs(DesiredUniverse, MaxRecs)}
          /\ hosts \in {GenerateHosts(hs) :
                              hs \in NoDupSeqs(BackendUniverse, MaxHosts)}
          /\ nameservers = DefaultNsList
       \/ /\ declared \in {DomainConfig(ZoneName, rs, DefaultNsList) :
                              rs \in NoDupSeqs(MailUniverse, MaxRecs)}
          /\ hosts \in {GenerateHosts(hs) :
                              hs \in NoDupSeqs(FetchUniverse, MaxHosts)}
          /\ nameservers = DefaultNsList
       \/ /\ declared \in {DomainConfig(ZoneName, << >>, ns) :
                              ns \in NoDupSeqs(NsNames, MaxNs)}
          /\ hosts = ParkingHosts
          /\ nameservers \in NoDupSeqs(NsNames, MaxNs)
    /\ Idle
    /\ Constructed
    /\ NoWorkers

\* ----------------------------------------------------------- doWithRetry

\* lines 98-103: doWithRetry(f) is entered, f making the backend call s.
EnterDoWithRetry(s) ==
    /\ pc' = "doWithRetry"
    /\ site' = s
    /\ currentRetry' = 0
    /\ err' = Nil
    /\ calls' = 0
    /\ sleeps' = 0

\* The caller of doWithRetry goes on: the locals of the call are gone.
LeaveDoWithRetry ==
    /\ site' = "none"
    /\ currentRetry' = 0
    /\ err' = Nil
    /\ calls' = 0
    /\ sleeps' = 0

\* lines 104-106: f() reaches the backend, which answers without error.
CallSucceeds ==
    /\ pc = "doWithRetry"
    /\ calls' = calls + 1
    /\ err' = Nil
    /\ pc' = "returned"
    /\ records' = IF site = "DomainsDNSGetHosts" THEN hosts ELSE records
    /\ info' = IF site = "DomainGetInfo" THEN nameservers ELSE info
    /\ hosts' = IF site = "DomainDNSSetHosts" THEN StoredHosts(recs) ELSE hosts
    /\ nameservers' = IF site = "DomainDNSSetCustom"
                      THEN SplitComma(corrections[1].Msg.to)
                      ELSE nameservers
    /\ UNCHANGED <<ctor, workers, declared, dc, running, site, currentRetry, sleeps, recs,
                   planning, ret, passes, appliedPass>>

\* lines 104-117: f() returns an error; the loop starts to sleep or
\* returns.
CallFails ==
    /\ pc = "doWithRetry"
    /\ \E m \in {RateLimitMarker, OtherErrorMsg} :
         LET e == Error(m, calls + 1)
         IN  /\ calls' = calls + 1
             /\ err' = e
             /\ IF IsRateLimited(e)
                THEN /\ currentRetry' = currentRetry + 1
                     /\ IF RetryExhausted(currentRetry + 1)
                        THEN /\ pc' = "returned"
                             /\ sleeps' = sleeps
                        ELSE /\ pc' = "sleeping"
                             /\ sleeps' = sleeps + 1
                ELSE /\ currentRetry' = currentRetry
                     /\ pc' = "returned"
                     /\ sleeps' = sleeps
    /\ UNCHANGED <<ctor, workers, declared, dc, backend, running, site, records, info, recs,
                   planning, ret, passes, appliedPass>>

\* line 114: time.Sleep is over; the loop goes round again.
Wake ==
    /\ pc = "sleeping"
    /\ pc' = "doWithRetry"
    /\ UNCHANGED <<ctor, workers, declared, dc, backend, running, site,
                   currentRetry, err, calls, sleeps, records, info, recs,
                   planning, ret, passes, appliedPass>>

\* ------------------------------------------------------- the record pass

\* lines 122-129: the driver starts a pass; GetZoneRecords enters
\* doWithRetry.
GetZoneRecordsBegin ==
    /\ \/ pc = "idle" /\ passes = 0
       \/ pc = "applied"
    /\ passes < MaxPasses
    /\ passes' = passes + 1
    /\ dc' = declared
    /\ running' = "GetZoneRecords"
    /\ EnterDoWithRetry("DomainsDNSGetHosts")
    /\ records' = << >>
    /\ recs' = << >>
    /\ actual' = << >>
    /\ changes' = NoChanges
    /\ corrections' = << >>
    /\ printed' = << >>
    /\ ret' = Nil
    /\ UNCHANGED <<ctor, workers, declared, backend, info, appliedPass>>

\* lines 130-171: doWithRetry is back; GetZoneRecords returns the error or
\* the records.
GetZoneRecordsReturn ==
    /\ pc = "returned"
    /\ site = "DomainsDNSGetHosts"
    /\ IF err # Nil
       THEN /\ ret' = err
            /\ pc' = "failed"
            /\ actual' = << >>
       ELSE LET res == ActualOf(records)
            IN  /\ ret' = res.err
                /\ pc' = IF res.err = Nil THEN "fetched" ELSE "failed"
                /\ actual' = res.records
    /\ running' = "none"
    /\ records' = << >>
    /\ LeaveDoWithRetry
    /\ UNCHANGED <<ctor, workers, declared, dc, backend, info, recs, changes, corrections,
                   printed, passes, appliedPass>>

\* lines 240-287 (variant: generateRecords called at once, not deferred
\* into F).
GetZoneRecordsCorrectionsEager ==
    /\ pc = "fetched"
    /\ LET kept == Filter(dc.Records)
           cs == IncrementalDiff(kept, actual)
       IN  /\ dc' = [dc EXCEPT !.Records = kept]
           /\ printed' = FilterOutput(dc.Records)
           /\ changes' = cs
           /\ corrections' = ZoneCorrections(dc.Name, kept, cs)
           /\ hosts' = IF HasChanges(Description(cs))
                       THEN StoredHosts(GenerateHosts(kept))
                       ELSE hosts
    /\ pc' = "planned"
    /\ UNCHANGED <<ctor, workers, declared, nameservers, running, loop, records, info, recs,
                   actual, ret, passes, appliedPass>>

\* lines 240-287: GetZoneRecordsCorrections.
GetZoneRecordsCorrections ==
    /\ pc = "fetched"
    /\ LET kept == Filter(dc.Records)
           cs == IncrementalDiff(kept, actual)
       IN  /\ dc' = [dc EXCEPT !.Records = kept]
           /\ printed' = FilterOutput(dc.Records)
           /\ changes' = cs
           /\ corrections' = ZoneCorrections(dc.Name, kept, cs)
    /\ pc' = "planned"
    /\ UNCHANGED <<ctor, workers, declared, backend, running, loop, records, info, recs,
                   actual, ret, passes, appliedPass>>

\* lines 280-282 and 319-345: the driver runs the action F of the bundled
\* Correction; generateRecords builds recs and enters doWithRetry.
ExecuteZoneCorrection ==
    /\ pc = "planned"
    /\ \E i \in 1..Len(corrections) : corrections[i].F = "generateRecords"
    /\ recs' = GenerateHosts(dc.Records)
    /\ running' = "F"
    /\ EnterDoWithRetry("DomainDNSSetHosts")
    /\ UNCHANGED <<ctor, workers, declared, dc, backend, records, info, planning, ret,
                   passes, appliedPass>>

\* line 349: doWithRetry is back; generateRecords, and with it F, returns err.
GenerateRecordsReturn ==
    /\ pc = "returned"
    /\ site = "DomainDNSSetHosts"
    /\ ret' = err
    /\ pc' = IF err = Nil THEN "applied" ELSE "failed"
    /\ appliedPass' = IF err = Nil THEN passes ELSE appliedPass
    /\ running' = "none"
    /\ LeaveDoWithRetry
    /\ UNCHANGED <<ctor, workers, declared, dc, backend, records, info, recs, planning,
                   passes>>

\* ---------------------------------------------------- the registrar pass

\* lines 359-365: GetRegistrarCorrections enters doWithRetry.
GetRegistrarCorrectionsBegin ==
    /\ pc = "idle"
    /\ passes = 0
    /\ running' = "GetRegistrarCorrections"
    /\ EnterDoWithRetry("DomainGetInfo")
    /\ UNCHANGED <<ctor, workers, declared, dc, backend, records, info, recs, planning, ret,
                   passes, appliedPass>>

\* lines 366-393: doWithRetry is back; GetRegistrarCorrections returns the
\* error or the corrections.
GetRegistrarCorrectionsReturn ==
    /\ pc = "returned"
    /\ site = "DomainGetInfo"
    /\ ret' = err
    /\ IF err # Nil
       THEN /\ pc' = "failed"
            /\ corrections' = << >>
            /\ info' = info
       ELSE /\ pc' = "regPlanned"
            /\ corrections' = RegistrarCorrections(info, dc.Nameservers)
            /\ info' = SortStrings(info)
    /\ running' = "none"
    /\ LeaveDoWithRetry
    /\ UNCHANGED <<ctor, workers, declared, dc, backend, records, recs, actual, changes,
                   printed, passes, appliedPass>>

\* lines 383-385: the driver runs the action F of the nameserver Correction,
\* which enters doWithRetry.
ExecuteRegistrarCorrection ==
    /\ pc = "regPlanned"
    /\ Len(corrections) > 0
    /\ running' = "F"
    /\ EnterDoWithRetry("DomainDNSSetCustom")
    /\ UNCHANGED <<ctor, workers, declared, dc, backend, records, info, recs, planning, ret,
                   passes, appliedPass>>

\* line 388: doWithRetry is back; F returns err.
SetCustomReturn ==
    /\ pc = "returned"
    /\ site = "DomainDNSSetCustom"
    /\ ret' = err
    /\ pc' = IF err = Nil THEN "regApplied" ELSE "failed"
    /\ running' = "none"
    /\ LeaveDoWithRetry
    /\ UNCHANGED <<ctor, workers, declared, dc, backend, records, info, recs, planning,
                   passes, appliedPass>>

Next ==
    \/ CallSucceeds
    \/ CallFails
    \/ Wake
    \/ GetZoneRecordsBegin
    \/ GetZoneRecordsReturn
    \/ GetZoneRecordsCorrections
    \/ ExecuteZoneCorrection
    \/ GenerateRecordsReturn
    \/ GetRegistrarCorrectionsBegin
    \/ GetRegistrarCorrectionsReturn
    \/ ExecuteRegistrarCorrection
    \/ SetCustomReturn

Spec == Init /\ [][Next]_vars

\* ------------------------------------------------- the constructor runs

\* No zone, no pass: the state the constructors run in.
NoZone ==
    /\ declared = DomainConfig(ZoneName, << >>, << >>)
    /\ hosts = << >>
    /\ nameservers = << >>
    /\ Idle

InitConfig ==
    /\ conf \in Confs
    /\ built = "none"
    /\ handle = NoHandle
    /\ newErr = Nil
    /\ requests = 0
    /\ NoZone
    /\ NoWorkers

\* The constructor of the provider kind runs on conf and returns r; it sends
\* no request.
Construct(kind, r) ==
    /\ built = "none"
    /\ built' = kind
    /\ handle' = r.handle
    /\ newErr' = r.err
    /\ UNCHANGED <<conf, requests, workers, declared, dc, backend, pc, running,
                   loop, records, info, recs, planning, ret, passes,
                   appliedPass>>

\* namecheap newDsp / newReg, lines 60-66
NewNamecheap == Construct("NAMECHEAP", NamecheapNewProvider(conf))
\* hexonet newReg / newDsp, lines 62-68
NewHexonet == Construct("HEXONET", HexonetNewProvider(conf))
\* powerdns newDSP, line 65
NewPowerdns == Construct("POWERDNS", PowerdnsNewDSP(conf))

NextConfig ==
    \/ NewNamecheap
    \/ NewHexonet
    \/ NewPowerdns

SpecConfig == InitConfig /\ [][NextConfig]_vars

\* ------------------------------------------------- concurrent workers

\* line 102: currentRetry is a local of the doWithRetry call worker w runs.
\* (variant: one counter shared by all calls)
SharedCurrentRetry(w, counters) == counters[1] + counters[2]
LocalCurrentRetry(w, counters) == counters[w]

InitWorkers ==
    /\ NoZone
    /\ Constructed
    /\ NoWorkers

\* lines 98-103: worker w enters doWithRetry.
WEnter(w) ==
    /\ wPc[w] = "idle"
    /\ wDone[w] < MaxCalls
    /\ wPc' = [wPc EXCEPT ![w] = "doWithRetry"]
    /\ wRetry' = [wRetry EXCEPT ![w] = 0]
    /\ wCalls' = [wCalls EXCEPT ![w] = 0]
    /\ wSleeps' = [wSleeps EXCEPT ![w] = 0]
    /\ wErr' = [wErr EXCEPT ![w] = Nil]
    /\ UNCHANGED wDone

\* lines 104-106: the call of worker w succeeds.
WCallSucceeds(w) ==
    /\ wPc[w] = "doWithRetry"
    /\ wCalls' = [wCalls EXCEPT ![w] = @ + 1]
    /\ wErr' = [wErr EXCEPT ![w] = Nil]
    /\ wPc' = [wPc EXCEPT ![w] = "returned"]
    /\ UNCHANGED <<wRetry, wSleeps, wDone>>

\* lines 104-117: the call of worker w fails; the worker returns or starts
\* to sleep.
WCallFails(w) ==
    /\ wPc[w] = "doWithRetry"
    /\ \E m \in {RateLimitMarker, OtherErrorMsg} :
         LET e == Error(m, wCalls[w] + 1)
             n == LocalCurrentRetry(w, wRetry) + 1
         IN  /\ wCalls' = [wCalls EXCEPT ![w] = @ + 1]
             /\ wErr' = [wErr EXCEPT ![w] = e]
             /\ IF IsRateLimited(e)
                THEN /\ wRetry' = [wRetry EXCEPT ![w] = n]
                     /\ IF RetryExhausted(n)
                        THEN /\ wPc' = [wPc EXCEPT ![w] = "returned"]
                             /\ wSleeps' = wSleeps
                        ELSE /\ wPc' = [wPc EXCEPT ![w] = "sleeping"]
                             /\ wSleeps' = [wSleeps EXCEPT ![w] = @ + 1]
                ELSE /\ wRetry' = wRetry
                     /\ wPc' = [wPc EXCEPT ![w] = "returned"]
                     /\ wSleeps' = wSleeps
    /\ UNCHANGED wDone

\* line 114: time.Sleep of worker w is over.
WWake(w) ==
    /\ wPc[w] = "sleeping"
    /\ wPc' = [wPc EXCEPT ![w] = "doWithRetry"]
    /\ UNCHANGED <<wRetry, wCalls, wSleeps, wDone, wErr>>

\* The caller of worker w goes on: the locals of the call are gone.
WLeave(w) ==
    /\ wPc[w] = "returned"
    /\ wPc' = [wPc EXCEPT ![w] = "idle"]
    /\ wDone' = [wDone EXCEPT ![w] = @ + 1]
    /\ wRetry' = [wRetry EXCEPT ![w] = 0]
    /\ wCalls' = [wCalls EXCEPT ![w] = 0]
    /\ wSleeps' = [wSleeps EXCEPT ![w] = 0]
    /\ wErr' = [wErr EXCEPT ![w] = Nil]

\* One step of worker w.
WorkerStep(w) ==
    \/ WEnter(w)
    \/ WCallSucceeds(w)
    \/ WCallFails(w)
    \/ WWake(w)
    \/ WLeave(w)

NextWorkers ==
    \E w \in Workers :
        /\ WorkerStep(w)
        /\ UNCHANGED <<ctor, declared, dc, backend, pc, running, loop, records,
                       info, recs, planning, ret, passes, appliedPass>>

SpecWorkers == InitWorkers /\ [][NextWorkers]_vars

\* --------------------------------------------------------------- claims

\* C1: doWithRetry invokes f at most maxRetries = 23 times.  While fewer than
\* 23 invocations have been rate-limited the loop is still calling, and a
\* call that then succeeds ends the wrapper with the caller's err nil after
\* k + 1 invocations, k < 23; when every invocation was rate-limited the
\* wrapper has stopped after exactly 23 invocations and the caller's err is
\* the error of the 23rd.
C1_RetryBound ==
    /\ calls <= maxRetries
    /\ pc \in {"doWithRetry", "sleeping"} =>
          /\ currentRetry < maxRetries
          /\ calls = currentRetry
    /\ pc = "returned" =>
          /\ err = Nil => (currentRetry < maxRetries /\ calls = currentRetry + 1)
          /\ currentRetry < maxRetries => calls = currentRetry + 1
          /\ calls = currentRetry =>
                /\ calls = maxRetries
                /\ err = Error(RateLimitMarker, maxRetries)

\* C1 witness: the wrapper gave up after 23 rate-limited invocations.
C1_Witness ==
    /\ pc = "returned"
    /\ calls = maxRetries
    /\ currentRetry = maxRetries
    /\ err.msg = RateLimitMarker

\* C2: an error other than the rate-limit signal ends doWithRetry at once,
\* on the first attempt or after earlier rate-limited ones: the loop never
\* goes on with such an error, the failing invocation is the last one, no
\* sleep follows it, and the caller returns that very error without touching
\* the backend.
C2_OtherErrorReturnsAtOnce ==
    /\ [](/\ pc \in {"doWithRetry", "sleeping"} => err.msg # OtherErrorMsg
          /\ (pc = "returned" /\ err.msg = OtherErrorMsg) =>
                /\ err.call = calls
                /\ calls = currentRetry + 1
                /\ sleeps = currentRetry)
    /\ [][(pc = "returned" /\ err.msg = OtherErrorMsg) =>
            /\ pc' = "failed"
            /\ ret' = err
            /\ backend' = backend]_vars

\* C2 witness: a provider function returned the non-retryable error its
\* third backend call gave, after two rate-limited ones.
C2_Witness ==
    /\ pc = "failed"
    /\ ret = Error(OtherErrorMsg, 3)

\* The corrections of the list that carry an action.
Executable(cors) == {i \in 1..Len(cors) : cors[i].F # "nil"}
\* The corrections of the list that are report-only.
ReportOnly(cors) == {i \in 1..Len(cors) : cors[i].F = "nil"}

\* C3: GetZoneRecordsCorrections returns exactly one executable Correction
\* when toCreate, toDelete and toModify are not all empty and none when they
\* are; that Correction names the zone and the number of desired records and
\* lists every create, then every delete, then every modify.
C3_BundlePlanning ==
    pc = "planned" =>
        LET nc == Len(changes.toCreate)
            nd == Len(changes.toDelete)
            nm == Len(changes.toModify)
            ex == Executable(corrections)
        IN  /\ nc + nd + nm > 0 => Cardinality(ex) = 1
            /\ nc + nd + nm = 0 => ex = {}
            /\ \A i \in ex :
                 LET m == corrections[i].Msg
                 IN  /\ i = Len(corrections)
                     /\ corrections[i].F = "generateRecords"
                     /\ m.head = "GENERATE_ZONE"
                     /\ m.zone = declared.Name
                     /\ m.count = Len(dc.Records)
                     /\ Len(m.desc) = nc + nd + nm
                     /\ \A j \in 1..nc :
                          m.desc[j] = <<"CREATE", changes.toCreate[j]>>
                     /\ \A j \in 1..nd :
                          m.desc[nc + j] = <<"DELETE", changes.toDelete[j]>>
                     /\ \A j \in 1..nm :
                          m.desc[nc + nd + j] = <<"MODIFY", changes.toModify[j]>>

\* C3 witness: a planned pass with a create, a delete and a modify.
C3_Witness ==
    /\ pc = "planned"
    /\ Len(changes.toCreate) = 1
    /\ Len(changes.toDelete) = 1
    /\ Len(changes.toModify) = 1
    /\ Cardinality(Executable(corrections)) = 1

\* C4: the backend's hosts and nameservers change only in a step of the
\* retry loop that a Correction's action F entered, making one of the two
\* mutating calls; GetZoneRecords and GetRegistrarCorrections make only
\* their read call.
C4_PlanningNeverMutates ==
    /\ [](/\ running = "GetZoneRecords" => site = "DomainsDNSGetHosts"
          /\ running = "GetRegistrarCorrections" => site = "DomainGetInfo")
    /\ [][backend' # backend =>
            /\ running = "F"
            /\ pc = "doWithRetry"
            /\ site \in {"DomainDNSSetHosts", "DomainDNSSetCustom"}]_vars

\* C4 witness: a pass has planned a bundled Correction, and the backend does
\* not hold what the Correction would send.
C4_Witness ==
    /\ pc = "planned"
    /\ Executable(corrections) # {}
    /\ hosts # StoredHosts(GenerateHosts(dc.Records))

\* C5 (as claimed): once a bundled Correction has run successfully, the next
\* pass over the same declaration plans no executable Correction.
C5_IdempotentAfterApply ==
    (pc = "planned" /\ appliedPass >= 1 /\ passes > appliedPass) =>
        Executable(corrections) = {}

\* C6: with an empty desired set and a fetched snapshot of the parking shape
\* the pass computes an empty ChangeSet and returns no Correction.
C6_ParkingIsNoOp ==
    (/\ pc = "planned"
     /\ declared.Records = << >>
     /\ Len(hosts) = 2
     /\ hosts[1].Type = "CNAME"
     /\ Contains(hosts[1].Address, ParkingMarker)
     /\ hosts[2].Type = "URL") =>
        /\ changes.toCreate = << >>
        /\ changes.toDelete = << >>
        /\ changes.toModify = << >>
        /\ corrections = << >>

\* C6 witness: such a pass has planned.
C6_Witness ==
    /\ pc = "planned"
    /\ declared.Records = << >>
    /\ hosts = ParkingHosts
    /\ actual = << >>

\* A desired record of type NS at the apex.
IsApexNS(r) == r.Type = "NS" /\ r.Label = "@"

\* C7: no desired apex NS record, whatever its target, is the desired side
\* of a create, delete or modify; the executable Corrections are those of
\* the declaration without its apex NS records; and no host of type NS named
\* "@" is in the list the bundled Correction's action sends.
C7_ApexNsFiltered ==
    /\ \A i \in 1..Len(changes.toCreate) : ~IsApexNS(changes.toCreate[i].Desired)
    /\ \A i \in 1..Len(changes.toDelete) : ~IsApexNS(changes.toDelete[i].Desired)
    /\ \A i \in 1..Len(changes.toModify) : ~IsApexNS(changes.toModify[i].Desired)
    /\ pc = "planned" =>
          LET others == SelectSeq(declared.Records, LAMBDA r : ~IsApexNS(r))
              cs == IncrementalDiff(others, actual)
          IN  /\ \A i \in 1..Len(dc.Records) : ~IsApexNS(dc.Records[i])
              /\ (Executable(corrections) # {}) <=>
                    (Len(cs.toCreate) + Len(cs.toDelete) + Len(cs.toModify) > 0)
    /\ \A i \in 1..Len(recs) : ~(recs[i].Type = "NS" /\ recs[i].Name = "@")
    /\ (running = "F" /\ site = "DomainDNSSetHosts") =>
          Len(recs) = Cardinality({i \in 1..Len(declared.Records) :
                                      ~IsApexNS(declared.Records[i])})

\* C7 witness: the action of a bundled Correction is sending the one other
\* record of a declaration that also holds an apex NS record.
C7_Witness ==
    /\ running = "F"
    /\ site = "DomainDNSSetHosts"
    /\ Len(declared.Records) = 2
    /\ \E i \in 1..2 : IsApexNS(declared.Records[i])
    /\ Len(recs) = 1

\* The desired apex NS records the filter names in a printed line.
SkippedWithNotice(rs) ==
    SelectSeq(rs, LAMBDA r :
        IsApexNS(r) /\ ~HasSuffix(r.Target, OwnNsSuffix))

\* C8 (as claimed): every desired apex NS record skipped with a notice is one
\* report-only Correction of the list GetZoneRecordsCorrections returns.
C8_NoticeIsCorrection ==
    pc = "planned" =>
        Cardinality(ReportOnly(corrections))
            = Len(SkippedWithNotice(declared.Records))

\* Number of occurrences of x in the sequence q.
Count(q, x) == Cardinality({i \in 1..Len(q) : q[i] = x})
\* The sequences hold the same names, in any order.
SameNames(p, q) == \A x \in Range(p) \cup Range(q) : Count(p, x) = Count(q, x)
\* The joined string names the names of q in increasing byte order.
SortedJoinOf(joined, q) ==
    LET names == SelectSeq(joined, LAMBDA x : x # ",")
    IN  /\ SameNames(names, q)
        /\ Len(joined) = IF Len(q) = 0 THEN 0 ELSE 2 * Len(q) - 1
        /\ \A i \in 1..(Len(names) - 1) : StrRank(names[i]) <= StrRank(names[i + 1])

\* C9: GetRegistrarCorrections returns no Correction when the fetched and
\* the desired nameserver lists hold the same names in any order, and
\* otherwise exactly one, which names the sorted, comma-joined old and new
\* lists and whose action leaves the backend with the desired names.
C9_NameserverReconciliation ==
    /\ pc = "regPlanned" =>
          IF SameNames(nameservers, dc.Nameservers)
          THEN corrections = << >>
          ELSE /\ Len(corrections) = 1
               /\ corrections[1].F = "DomainDNSSetCustom"
               /\ corrections[1].Msg.head = "Change Nameservers"
               /\ SortedJoinOf(corrections[1].Msg.from, nameservers)
               /\ SortedJoinOf(corrections[1].Msg.to, dc.Nameservers)
    /\ pc = "regApplied" => SameNames(nameservers, dc.Nameservers)

\* C9 witness: no Correction for two lists of the same two names in
\* different order.
C9_Witness ==
    /\ pc = "regPlanned"
    /\ Len(nameservers) = 2
    /\ nameservers # dc.Nameservers
    /\ SameNames(nameservers, dc.Nameservers)
    /\ corrections = << >>

\* The lists differ, and only in the letter case of names.
DifferOnlyInCase(p, q) ==
    /\ ~SameNames(p, q)
    /\ SameNames([i \in 1..Len(p) |-> ToLower(p[i])],
                 [i \in 1..Len(q) |-> ToLower(q[i])])

\* C10 (as claimed): lists that differ only in the letter case of host names
\* produce no Correction.
C10_CaseNormalized ==
    (pc = "regPlanned" /\ DifferOnlyInCase(nameservers, dc.Nameservers)) =>
        corrections = << >>

\* C10 (amended): the comparison is case-sensitive: lists that differ only
\* in the letter case of host names are different lists and produce exactly
\* one Correction, from the fetched to the desired spelling.
C10_CaseSensitive ==
    (pc = "regPlanned" /\ DifferOnlyInCase(nameservers, dc.Nameservers)) =>
        /\ Len(corrections) = 1
        /\ corrections[1].F = "DomainDNSSetCustom"
        /\ corrections[1].Msg.from # corrections[1].Msg.to

\* C10 witness: the backend spells NS1.example.com, the declaration
\* ns1.example.com, and one Correction is planned.
C10_Witness ==
    /\ pc = "regPlanned"
    /\ nameservers = <<"NS1.example.com">>
    /\ dc.Nameservers = <<"ns1.example.com">>
    /\ Len(corrections) = 1

\* C11: a constructor given a configuration that lacks a required credential
\* returns an error and no handle, and has sent no request: Namecheap without
\* apikey or apiuser; Hexonet with an apientity other than OTE and LIVE or
\* without apilogin or apipassword; PowerDNS without apiKey, apiUrl or
\* serverName.
C11_MissingCredentialRejected ==
    LET rejected == handle = NoHandle /\ newErr # Nil /\ requests = 0
    IN  /\ (built = "NAMECHEAP" /\ (conf.apikey = "" \/ conf.apiuser = ""))
              => rejected
        /\ (built = "HEXONET"
              /\ (\/ conf.apientity \notin {"OTE", "LIVE"}
                  \/ conf.apilogin = ""
                  \/ conf.apipassword = ""))
              => rejected
        /\ (built = "POWERDNS"
              /\ (conf.apiKey = "" \/ conf.apiUrl = "" \/ conf.serverName = ""))
              => rejected

\* C11 witness: the Namecheap constructor ran on a configuration with an
\* apiuser and no apikey.
C11_Witness ==
    /\ built = "NAMECHEAP"
    /\ conf.apiuser = "user"
    /\ conf.apikey = ""
    /\ handle = NoHandle

\* The record a fetched host stands for.
AsRecord(h) == Rec(h.Name, h.Type, h.Address, h.MXPref, h.TTL)

\* The fetched hosts have the shape of the two parking records.
ParkingShape(hostList) ==
    /\ Len(hostList) = 2
    /\ hostList[1].Type = "CNAME"
    /\ Contains(hostList[1].Address, ParkingMarker)
    /\ hostList[2].Type = "URL"

\* C12 (as claimed): with a non-empty desired set, fetched hosts of the
\* parking shape stay in the actual snapshot, one record per host, and the
\* ChangeSet is the diff of the desired records against them.
C12_PlaceholderOnlyWhenEmpty ==
    (/\ pc \in {"fetched", "planned"}
     /\ declared.Records # << >>
     /\ ParkingShape(hosts)) =>
        /\ actual = <<AsRecord(hosts[1]), AsRecord(hosts[2])>>
        /\ pc = "planned" =>
              changes = IncrementalDiff(dc.Records, <<AsRecord(hosts[1]),
                                                      AsRecord(hosts[2])>>)

\* The notice for the record r of the declaration was printed.
Noticed(r) == \E j \in 1..Len(printed) : printed[j] = r.Target

\* C13 (as claimed): the notice for a desired apex NS record is left out
\* exactly when its target is one of the default nameservers
\* dns1.registrar-servers.com and dns2.registrar-servers.com.
C13_SuppressedForDefaultsOnly ==
    pc = "planned" =>
        \A i \in 1..Len(declared.Records) :
            IsApexNS(declared.Records[i]) =>
                (Noticed(declared.Records[i])
                    <=> ~TargetIsDefaultNs(declared.Records[i]))

\* C13 (amended): the notice for a desired apex NS record is left out exactly
\* when its target ends in "registrar-servers.com.", which covers the default
\* nameservers and every other host of that domain.
C13_SuppressedBySuffix ==
    pc = "planned" =>
        \A i \in 1..Len(declared.Records) :
            IsApexNS(declared.Records[i]) =>
                /\ Noticed(declared.Records[i])
                     <=> ~HasSuffix(declared.Records[i].Target, OwnNsSuffix)
                /\ TargetIsDefaultNs(declared.Records[i])
                     => ~Noticed(declared.Records[i])

\* C13 witness: a pass planned for a declaration with an apex NS record at
\* freedns1.registrar-servers.com., which is no default nameserver, and
\* printed nothing.
C13_Witness ==
    /\ pc = "planned"
    /\ \E i \in 1..Len(declared.Records) :
          /\ IsApexNS(declared.Records[i])
          /\ declared.Records[i].Target = Text("freedns1.registrar-servers.com.")
          /\ ~TargetIsDefaultNs(declared.Records[i])
    /\ printed = << >>

\* C14: while the action of the bundled Correction runs, the list it sends
\* holds one host per record of dc.Records, in order, with IDs 1..n and the
\* record's label, type, target, MX preference and TTL; every attempt of the
\* retry loop sends that same list in a DomainDNSSetHosts call, and the
\* backend changes only by taking the whole list, which ends the loop.
C14_FullZoneReplacement ==
    /\ []((running = "F" /\ site = "DomainDNSSetHosts") =>
            /\ Len(recs) = Len(dc.Records)
            /\ \A i \in 1..Len(recs) :
                  /\ recs[i].ID = i
                  /\ recs[i].Name = dc.Records[i].Label
                  /\ recs[i].Type = dc.Records[i].Type
                  /\ recs[i].Address = dc.Records[i].Target
                  /\ recs[i].MXPref = dc.Records[i].MxPreference
                  /\ recs[i].TTL = dc.Records[i].TTL)
    /\ [][(running = "F" /\ site = "DomainDNSSetHosts") =>
            /\ recs' = recs
            /\ dc' = dc
            /\ pc \in {"doWithRetry", "sleeping"} => site' = site
            /\ hosts' # hosts =>
                  /\ Len(recs) > 0 => hosts' = recs
                  /\ pc = "doWithRetry"
                  /\ pc' = "returned"
                  /\ err' = Nil]_vars

\* C14 witness: the backend took the two hosts of a declaration with an MX
\* record on the second attempt of the retry loop.
C14_Witness ==
    /\ running = "F"
    /\ site = "DomainDNSSetHosts"
    /\ pc = "returned"
    /\ err = Nil
    /\ calls = 2
    /\ Len(recs) = 2
    /\ \E i \in 1..2 : recs[i].Type = "MX" /\ recs[i].MXPref = 10
    /\ hosts = recs

\* C15 (as claimed): no run of doWithRetry waits longer than 23 x 5 s, and a
\* run that was rate-limited on every attempt has waited once per attempt,
\* 23 x 5 s in all, when the wrapper gives up.
C15_WaitsOncePerAttempt ==
    /\ sleeps * sleepTime <= maxRetries * sleepTime
    /\ (pc = "returned" /\ currentRetry = maxRetries) =>
          /\ sleeps = calls
          /\ sleeps * sleepTime = maxRetries * sleepTime

\* The retry state of worker w.
RetryState(w) == <<wPc[w], wRetry[w], wCalls[w], wSleeps[w], wDone[w], wErr[w]>>

\* C16: with two workers running doWithRetry concurrently, each worker's
\* call counts only its own attempts: it gives up on the rate limit only
\* after 23 attempts of its own, a step of one worker leaves the retry state
\* of the other unchanged, a worker that is not sleeping itself can always
\* make its call, and each doWithRetry call starts from zero.
C16_RetryStateIsLocal ==
    /\ [](\A w \in Workers :
            /\ wCalls[w] <= maxRetries
            /\ wPc[w] \in {"doWithRetry", "sleeping"} =>
                  /\ wCalls[w] = wRetry[w]
                  /\ wRetry[w] < maxRetries
            /\ wPc[w] = "sleeping" => wSleeps[w] = wCalls[w]
            /\ (wPc[w] = "returned" /\ wErr[w].msg = RateLimitMarker) =>
                  wCalls[w] = maxRetries
            /\ wPc[w] = "doWithRetry" => ENABLED WCallSucceeds(w))
    /\ [][\A w \in Workers :
            /\ RetryState(w)' # RetryState(w) =>
                  \A v \in Workers \ {w} : RetryState(v)' = RetryState(v)
            /\ (wPc[w] = "idle" /\ wPc'[w] = "doWithRetry") =>
                  /\ wRetry'[w] = 0
                  /\ wCalls'[w] = 0
                  /\ wSleeps'[w] = 0]_vars

\* C16 witness: worker 1 sleeps after 22 rate-limited attempts of its first
\* call while worker 2, rate-limited 22 times as well in its second call, is
\* about to make its 23rd attempt.
C16_Witness ==
    /\ wPc[1] = "sleeping"
    /\ wRetry[1] = maxRetries - 1
    /\ wDone[1] = 0
    /\ wPc[2] = "doWithRetry"
    /\ wRetry[2] = maxRetries - 1
    /\ wDone[2] = 1

\* The fetched host cannot be converted: an A record whose address holds a
\* character that is neither a digit nor a dot.
Malformed(h) ==
    /\ h.Type = "A"
    /\ \E i \in 1..Len(h.Address) :
          h.Address[i] \notin {"0", "1", "2", "3", "4", "5", "6", "7", "8",
                               "9", "."}

\* The first fetched host that cannot be converted.
FirstMalformed(hostList) ==
    CHOOSE i \in 1..Len(hostList) :
        /\ Malformed(hostList[i])
        /\ \A k \in 1..(i - 1) : ~Malformed(hostList[k])

\* GetZoneRecords returns an error and no record at all.
FailsClosed(hostList) ==
    /\ pc' = "failed"
    /\ ret' = [msg |-> InvalidIP \o hostList[FirstMalformed(hostList)].Address,
               call |-> 0]
    /\ actual' = << >>

\* GetZoneRecords returns one record per fetched host, in the fetched order.
OneRecordPerHost(hostList) ==
    /\ pc' = "fetched"
    /\ ret' = Nil
    /\ Len(actual') = Len(hostList)
    /\ \A i \in 1..Len(hostList) : actual'[i] = AsRecord(hostList[i])

\* C17 (as claimed): when GetZoneRecords returns after a successful fetch, it
\* returns the error of the first failing conversion and no record at all if
\* a fetched host cannot be converted, and otherwise exactly one record per
\* fetched host, in the fetched order.
C17_OneRecordPerFetchedHost ==
    [][(/\ pc = "returned"
        /\ site = "DomainsDNSGetHosts"
        /\ err = Nil) =>
          IF \E i \in 1..Len(records) : Malformed(records[i])
          THEN FailsClosed(records)
          ELSE OneRecordPerHost(records)]_vars

\* C17 (amended): when GetZoneRecords returns after a successful fetch of
\* hosts of the parking shape, it returns no record and no error, converting
\* nothing; for any other fetch it returns the error of the first failing
\* conversion and no record at all if a fetched host cannot be converted,
\* and otherwise exactly one record per fetched host, in the fetched order.
C17_ConversionFailsClosed ==
    [][(/\ pc = "returned"
        /\ site = "DomainsDNSGetHosts"
        /\ err = Nil) =>
          IF ParkingShape(records)
          THEN /\ pc' = "fetched"
               /\ ret' = Nil
               /\ actual' = << >>
          ELSE IF \E i \in 1..Len(records) : Malformed(records[i])
          THEN FailsClosed(records)
          ELSE OneRecordPerHost(records)]_vars

\* C17 witness: GetZoneRecords failed on two fetched hosts of which the
\* first converts and the second does not, and returned the error about the
\* second and no record.
C17_Witness ==
    /\ pc = "failed"
    /\ Len(hosts) = 2
    /\ ~Malformed(hosts[1])
    /\ Malformed(hosts[2])
    /\ ret.msg = InvalidIP \o hosts[2].Address
    /\ actual = << >>

====
